---- MODULE Spec2Model ----
(***************************************************************************)
(* Note-Ify: the session audio pipeline, the transcription queue and the   *)
(* session lifecycle, as implemented twice in the repository:              *)
(*   - the Handler class (src/unnamed/part_000), one instance per session, *)
(*     with the helpers of src/unnamed/part_001;                           *)
(*   - the module-level handlers of src/index.js with the process-wide     *)
(*     queue of src/utils.js.                                              *)
(* The variable impl says which of the two wirings a behaviour runs.       *)
(***************************************************************************)
EXTENDS Integers, Sequences, FiniteSets, TLC

\* ------------------------------------------------------------------ bounds
MaxCaptures == 2      \* capture pipelines created in one behaviour
MaxCommands == 2      \* pause, stop and unpause commands issued in one behaviour
MaxSessions == 2      \* sessions started in index.js in one behaviour
MaxFeedback == 2      \* thread messages delivered to a collector
MaxLogLen == 3        \* messages of a chat log given to BuildTranscript
MaxOverlap == 3       \* commands issued in one behaviour of SpecOverlap
LongLen == 120000     \* characters of the long transcription result

\* --------------------------------------------------------- program constants
MAX_TOKEN_LIMIT == 40000

SYSTEM == "system"
USER == "user"
ASSISTANT == "assistant"
INITIAL_PROMPT == <<"You are a tabletop role-playing game summarizer.">>
REPLY_PROMPT == <<"You will now take feedback on your markdown summary.">>

\* ------------------------------------------------------------------- text
\* A string is a sequence of pieces; a piece is a literal, except LongText
\* which stands for LongLen characters of ordinary transcribed speech.
LongText == "lorem ipsum ..."
BLANK_AUDIO == "[BLANK_AUDIO]"
EMPTY_QUOTES == "\"\""
SPACE == " "

PieceLen(p) == IF p = LongText THEN LongLen ELSE Len(p)

RECURSIVE StrLen(_)
StrLen(s) == IF s = <<>> THEN 0 ELSE PieceLen(Head(s)) + StrLen(Tail(s))

\* text.replace(/\s*\[BLANK_AUDIO\]\s*|""/g, ""): every blank-audio marker goes
\* with the whitespace around it, every pair of empty quotes goes; one pass.
CleanDrops(text, i) ==
    \/ text[i] = BLANK_AUDIO
    \/ text[i] = EMPTY_QUOTES
    \/ /\ text[i] = SPACE
       /\ \/ (i < Len(text) /\ text[i + 1] = BLANK_AUDIO)
          \/ (i > 1 /\ text[i - 1] = BLANK_AUDIO)

RECURSIVE CleanFrom(_, _)
CleanFrom(text, i) ==
    IF i > Len(text) THEN <<>>
    ELSE IF CleanDrops(text, i) THEN CleanFrom(text, i + 1)
    ELSE <<text[i]>> \o CleanFrom(text, i + 1)

CleanTranscription(text) == CleanFrom(text, 1)

\* Math.ceil(text.length / 4), 0 for the empty string
EstimateTokens(text) == IF StrLen(text) = 0 THEN 0 ELSE (StrLen(text) + 3) \div 4

\* `<${player}>${transcription}</${player}>` (Handler.dequeueTranscription)
HandlerContent(player, transcription) ==
    <<"<", player, ">">> \o transcription \o <<"</", player, ">">>

\* `<${member.nickname}>${text}</${member.nickname}` (handleUserWavBuffer)
IndexContent(nickname, text) ==
    <<"<", nickname, ">">> \o text \o <<"</", nickname>>

\* What the transcription service may answer: an error, or a raw text.
RawTexts == { <<BLANK_AUDIO>>, <<"hi", SPACE, BLANK_AUDIO>>, <<LongText>> }
WhisperError == <<"error">>
WhisperAnswers == RawTexts \cup {WhisperError}

\* the answer handed on as it came, uncleaned, an error like a text
TranscribeUnchecked(answer) == answer

\* TranscribeWavBuffer: the cleaned text, or "" when the call failed
TranscribeWavBuffer(answer) ==
    IF answer = WhisperError THEN <<>> ELSE CleanTranscription(answer)

\* What the language model answers.
SummaryText == <<"## Session summary">>

Msg(role, content, cap) == [role |-> role, content |-> content, cap |-> cap]

\* BuildTranscript: the contents of the user-role messages, joined by "\n\n"
RECURSIVE UserLines(_)
UserLines(log) ==
    IF log = <<>> THEN <<>>
    ELSE IF Head(log).role = USER THEN <<Head(log).content>> \o UserLines(Tail(log))
    ELSE UserLines(Tail(log))

RECURSIVE JoinLines(_)
JoinLines(lines) ==
    IF lines = <<>> THEN <<>>
    ELSE IF Len(lines) = 1 THEN lines[1]
    ELSE lines[1] \o <<"\n\n">> \o JoinLines(Tail(lines))

\* a transcript that takes the messages of every role
BuildTranscriptOfAllRoles(log) == JoinLines([k \in DOMAIN log |-> log[k].content])

BuildTranscript(log) == JoinLines(UserLines(log))

\* Feedback typed into the revision thread.
FeedbackText == <<"shorter, please">>

\* ------------------------------------------------------------------ state
Users == {"g1", "g2", "p1"}
Implementations == {"handler", "index"}

VARIABLES
    impl,                    \* which wiring runs: the Handler class or index.js
    \* --- the Handler instance (part_000 lines 45-113)
    connection,              \* this.connection: [status, gen]
    transcriptionQueue,      \* this.transcriptionQueue
    transcriptionWorking,    \* this.transcriptionWorking
    chatLog,                 \* this.chatLog
    tokenCount,              \* this.tokenCount
    this_activeVoiceStreams, \* this.activeVoiceStreams (its keys)
    hEpoch,                  \* history: the chat log's current epoch
    \* --- the event loop: what is suspended at an await, what may still fire
    pipelines,               \* live capture pipelines (opus -> decoder -> ffmpeg)
    workers,                 \* activations of the queue worker past their shift()
    ops,                     \* activations of pause()/stop()
    revisions,               \* activations of the collector's "collect" handler
    \* --- history
    hist,                    \* one record per capture ever started
    enqueued,                \* capture ids in the order their jobs were enqueued
    warnLog,                 \* warnings sent to the output channel
    commands,                \* lifecycle commands issued so far
    feedback,                \* thread messages delivered so far
    \* --- index.js module state and the queue of utils.js
    currentSessions,         \* currentSessions: owner -> session object (0: none)
    sessions,                \* the session objects ever created
    allSessionsMembers,      \* allSessionsMembers: user -> {nickname, sessionId}
    activeVoiceStreams,      \* activeVoiceStreams (its keys)
    TranscriptionQueue,      \* TranscriptionQueue
    TranscriptionWorking,    \* TranscriptionWorking
    timers                   \* pending 30-minute cleanup timers (their owners)

handlerVars == <<connection, transcriptionQueue, transcriptionWorking, chatLog,
                 tokenCount, this_activeVoiceStreams, hEpoch>>
loopVars == <<pipelines, workers, ops, revisions>>
histVars == <<hist, enqueued, warnLog, commands, feedback>>
indexVars == <<currentSessions, sessions, allSessionsMembers, activeVoiceStreams,
               TranscriptionQueue, TranscriptionWorking, timers>>
vars == <<impl, handlerVars, loopVars, histVars, indexVars>>

\* sessionData of the one Handler instance: owner g1, players g1 and p1.
HandlerSessionId == "g1"
activePlayers == [u \in {"g1", "p1"} |-> IF u = "g1" THEN "GM" ELSE "Al"]

\* --------------------------------------------------------- token thresholds
\* MAX_TOKEN_LIMIT * 0.75 and MAX_TOKEN_LIMIT * 0.85
WarnLow == (MAX_TOKEN_LIMIT * 75) \div 100
WarnHigh == (MAX_TOKEN_LIMIT * 85) \div 100

\* Handler.checkTokenLimit: the branch that sends the warning
HandlerWarns(tc) == tc >= WarnLow /\ tc <= WarnHigh

\* handleUserWavBuffer: the branch that sends the warning
IndexWarns(tc) == tc >= WarnLow

\* ------------------------------------------------------------ the queue
Job(userId, sessionId, buffer, cap) ==
    [userId |-> userId, sessionId |-> sessionId, buffer |-> buffer, cap |-> cap]

\* The queue, its lock, the suspended worker activations and the captures'
\* history, handled together by enqueue/dequeue.
QState(queue, working, h) ==
    [queue |-> queue, working |-> working, workers |-> workers, hist |-> h]

\* transcriptionQueue.shift(): the job taken and the queue left
QueueShift(queue) == [job |-> Head(queue), rest |-> Tail(queue)]

\* The worker takes the job: lock, then the call to the transcription service.
TakeJob(st) ==
    LET s == QueueShift(st.queue) IN
    [queue |-> s.rest, working |-> TRUE,
     workers |-> st.workers \cup {[job |-> s.job, pc |-> "transcribe", sess |-> 0,
                                      epoch |-> 0]},
     hist |-> [st.hist EXCEPT ![s.job.cap].outcome = "inflight",
                              ![s.job.cap].calls = @ + 1]]

\* Handler.dequeueTranscription, the early return of line 139
DequeueReturns(working, queue) == working \/ Len(queue) = 0

\* Handler.dequeueTranscription up to its await
HandlerDequeue(st) ==
    IF DequeueReturns(st.working, st.queue) THEN st ELSE TakeJob(st)

\* enqueueTranscription without the test of the lock
EnqueueUnguarded(st, job) == TakeJob([st EXCEPT !.queue = Append(@, job)])

\* Handler.enqueueTranscription
HandlerEnqueue(st, job) ==
    LET pushed == [st EXCEPT !.queue = Append(@, job)] IN
    IF ~pushed.working THEN HandlerDequeue(pushed) ELSE pushed

\* a finally block that neither releases the lock nor looks at the queue
HandlerFinallyKeepsLock(st, wk) == [st EXCEPT !.workers = @ \ {wk}]

\* Handler.dequeueTranscription, its finally block
HandlerFinally(st, wk) ==
    HandlerDequeue([st EXCEPT !.working = FALSE, !.workers = @ \ {wk}])

HandlerCommit(st) ==
    /\ transcriptionQueue' = st.queue
    /\ transcriptionWorking' = st.working
    /\ workers' = st.workers
    /\ hist' = st.hist

\* finishTranscriptionQueue: the loop condition is false
HandlerDrained == ~(transcriptionWorking \/ Len(transcriptionQueue) > 0)

\* ------------------------------------------------------------ capture
\* the "start" listener without its two early returns
StartNeverIgnored(streams, members, userId) == FALSE

\* receiver.speaking "start": the two early returns
StartIgnored(streams, members, userId) ==
    userId \in streams \/ userId \notin members

\* createVoiceListeningStream: a new pipeline with no chunk yet
NewCapture(userId, sessionId, sid, gen) ==
    /\ Len(hist) < MaxCaptures
    /\ pipelines' = pipelines \cup
          {[cap |-> Len(hist) + 1, userId |-> userId, sessionId |-> sessionId,
            chunks |-> 0]}
    /\ hist' = Append(hist, [userId |-> userId, sid |-> sid, gen |-> gen,
                             outcome |-> "capturing", calls |-> 0])

SetOutcome(h, cap, outcome) == [h EXCEPT ![cap].outcome = outcome]

OutcomeOf(answer) ==
    IF answer = WhisperError THEN "error"
    ELSE IF StrLen(CleanTranscription(answer)) = 0 THEN "empty" ELSE "text"

\* ffmpeg.on("data"): wavChunks.push(chunk).  Only Buffer.concat(wavChunks).length > 0
\* is ever read, so chunks is 0 (nothing yet) or 1 (at least one chunk).
StreamData(p) ==
    /\ p \in pipelines
    /\ p.chunks = 0
    /\ pipelines' = (pipelines \ {p}) \cup {[p EXCEPT !.chunks = 1]}
    /\ UNCHANGED <<impl, handlerVars, workers, ops, revisions, histVars, indexVars>>

\* Handler.startVoiceReceiver: the "start" listener
HSpeechStart(u) ==
    /\ impl = "handler"
    /\ connection.status = "ready"
    /\ IF StartIgnored(this_activeVoiceStreams, DOMAIN activePlayers, u)
       THEN UNCHANGED vars
       ELSE /\ NewCapture(u, HandlerSessionId, 1, connection.gen)
            /\ this_activeVoiceStreams' = this_activeVoiceStreams \cup {u}
            /\ UNCHANGED <<impl, connection, transcriptionQueue, transcriptionWorking,
                           chatLog, tokenCount, hEpoch, workers, ops, revisions,
                           enqueued, warnLog, commands, feedback, indexVars>>

\* an "end" handler that hands over its buffer without testing its length
HStreamEndQueuesAll(p) ==
    /\ impl = "handler"
    /\ p \in pipelines
    /\ pipelines' = pipelines \ {p}
    /\ this_activeVoiceStreams' = this_activeVoiceStreams \ {p.userId}
    /\ HandlerCommit(HandlerEnqueue(
           QState(transcriptionQueue, transcriptionWorking,
                  SetOutcome(hist, p.cap, "queued")),
           Job(p.userId, p.sessionId, p.chunks, p.cap)))
    /\ enqueued' = Append(enqueued, p.cap)
    /\ UNCHANGED <<impl, connection, chatLog, tokenCount, hEpoch, ops, revisions,
                   warnLog, commands, feedback, indexVars>>

\* Handler.createVoiceListeningStream: ffmpeg.on("end")
HStreamEnd(p) ==
    /\ impl = "handler"
    /\ p \in pipelines
    /\ pipelines' = pipelines \ {p}
    /\ this_activeVoiceStreams' = this_activeVoiceStreams \ {p.userId}
    /\ IF p.chunks > 0
       THEN /\ HandlerCommit(HandlerEnqueue(
                  QState(transcriptionQueue, transcriptionWorking,
                         SetOutcome(hist, p.cap, "queued")),
                  Job(p.userId, p.sessionId, p.chunks, p.cap)))
            /\ enqueued' = Append(enqueued, p.cap)
       ELSE /\ hist' = SetOutcome(hist, p.cap, "lost")
            /\ UNCHANGED <<transcriptionQueue, transcriptionWorking, workers, enqueued>>
    /\ UNCHANGED <<impl, connection, chatLog, tokenCount, hEpoch, ops, revisions,
                   warnLog, commands, feedback, indexVars>>

\* an errorHandler that tears down the streams of all speakers
HStreamErrorEndsAll(p) ==
    /\ impl = "handler"
    /\ p \in pipelines
    /\ pipelines' = {}
    /\ this_activeVoiceStreams' = {}
    /\ hist' = SetOutcome(hist, p.cap, "crashed")
    /\ UNCHANGED <<impl, connection, transcriptionQueue, transcriptionWorking,
                   chatLog, tokenCount, hEpoch, workers, ops, revisions,
                   enqueued, warnLog, commands, feedback, indexVars>>

\* Handler.createVoiceListeningStream: errorHandler
HStreamError(p) ==
    /\ impl = "handler"
    /\ p \in pipelines
    /\ pipelines' = pipelines \ {p}
    /\ this_activeVoiceStreams' = this_activeVoiceStreams \ {p.userId}
    /\ hist' = SetOutcome(hist, p.cap, "crashed")
    /\ UNCHANGED <<impl, connection, transcriptionQueue, transcriptionWorking,
                   chatLog, tokenCount, hEpoch, workers, ops, revisions,
                   enqueued, warnLog, commands, feedback, indexVars>>

\* ------------------------------------------------------- the Handler worker
\* Handler.dequeueTranscription after `await TranscribeWavBuffer(job.buffer)`
HTranscribed(wk, answer) ==
    /\ impl = "handler"
    /\ wk \in workers
    /\ wk.pc = "transcribe"
    /\ LET transcription == TranscribeWavBuffer(answer)
           content == HandlerContent(activePlayers[wk.job.userId], transcription)
           tc == tokenCount + EstimateTokens(content)
           h1 == SetOutcome(hist, wk.job.cap, OutcomeOf(answer))
       IN  IF StrLen(transcription) > 0
           THEN /\ chatLog' = Append(chatLog, Msg(USER, content, wk.job.cap))
                /\ tokenCount' = tc
                /\ IF HandlerWarns(tc)
                   THEN /\ workers' = (workers \ {wk}) \cup
                              {[wk EXCEPT !.pc = "warn", !.sess = 1,
                                          !.epoch = hEpoch.n]}
                        /\ hist' = h1
                        /\ UNCHANGED <<transcriptionQueue, transcriptionWorking>>
                   ELSE HandlerCommit(HandlerFinally(
                            QState(transcriptionQueue, transcriptionWorking, h1), wk))
           ELSE /\ HandlerCommit(HandlerFinally(
                      QState(transcriptionQueue, transcriptionWorking, h1), wk))
                /\ UNCHANGED <<chatLog, tokenCount>>
    /\ UNCHANGED <<impl, connection, this_activeVoiceStreams, hEpoch, pipelines, ops,
                   revisions, enqueued, warnLog, commands, feedback, indexVars>>

\* Handler.checkTokenLimit after `await ...send(warning)`, then the finally block
HWarned(wk, ok) ==
    /\ impl = "handler"
    /\ wk \in workers
    /\ wk.pc = "warn"
    /\ warnLog' = IF ok THEN Append(warnLog, [sid |-> wk.sess, epoch |-> wk.epoch,
                                              cap |-> wk.job.cap])
                  ELSE warnLog
    /\ HandlerCommit(HandlerFinally(
           QState(transcriptionQueue, transcriptionWorking, hist), wk))
    /\ UNCHANGED <<impl, connection, chatLog, tokenCount, this_activeVoiceStreams,
                   hEpoch, pipelines, ops, revisions, enqueued, commands, feedback,
                   indexVars>>

\* ------------------------------------------------------ Handler lifecycle
Op(kind, owner, sid, pc, gen) ==
    [kind |-> kind, owner |-> owner, sid |-> sid, pc |-> pc, gen |-> gen,
     sent |-> <<>>, summary |-> <<>>, busy |-> {}, collector |-> "none",
     failedAt |-> "none", transcript |-> <<>>]

Busy(stage, drained) == IF drained THEN {} ELSE {stage}

\* pause() after finishTranscriptionQueue: the template of line 285 reads the
\* undeclared identifier sessionId, a ReferenceError that rejects pause().
HandlerPauseAfterDrain == "threw"

\* stop() after finishTranscriptionQueue: BuildTranscript, then sendTyping
HandlerStopAfterDrain == "typing"

HandlerAfterDrain(kind) ==
    IF kind = "pause" THEN HandlerPauseAfterDrain ELSE HandlerStopAfterDrain

\* stop() between the drain and sendTyping: the transcript attachment is built
\* from this.chatLog (line 348)
HandlerAttach(op, log) ==
    IF op.kind = "stop" /\ op.pc = HandlerStopAfterDrain
    THEN [op EXCEPT !.transcript = BuildTranscript(log)]
    ELSE op

\* Handler.pause / Handler.stop up to their first suspension.  destroy() of a
\* connection that is already destroyed throws (@discordjs/voice): "refused".
HCommandWithin(kind, limit) ==
    /\ impl = "handler"
    /\ commands < limit
    /\ commands' = commands + 1
    /\ IF connection.status = "destroyed"
       THEN /\ ops' = Append(ops, Op(kind, HandlerSessionId, 1, "refused", connection.gen))
            /\ UNCHANGED connection
       ELSE /\ connection' = [connection EXCEPT !.status = "destroyed"]
            /\ ops' = Append(ops, HandlerAttach(
                                   Op(kind, HandlerSessionId, 1,
                                      IF HandlerDrained THEN HandlerAfterDrain(kind)
                                      ELSE "drain",
                                      connection.gen),
                                   chatLog))
    /\ UNCHANGED <<impl, transcriptionQueue, transcriptionWorking, chatLog, tokenCount,
                   this_activeVoiceStreams, hEpoch, pipelines, workers, revisions,
                   hist, enqueued, warnLog, feedback, indexVars>>

\* No earlier pause()/stop() is still suspended at an await.
NoOpInProgress ==
    \A i \in DOMAIN ops : ops[i].pc \in {"done", "failed", "threw", "refused"}

HCommand(kind) == HCommandWithin(kind, MaxCommands)

HPause == HCommand("pause")
HStop == HCommand("stop")

\* finishTranscriptionQueue: the poll that finds the queue drained
HDrainPoll(i) ==
    /\ impl = "handler"
    /\ i \in DOMAIN ops
    /\ ops[i].pc = "drain"
    /\ HandlerDrained
    /\ ops' = [ops EXCEPT ![i] = HandlerAttach(
                                    [ops[i] EXCEPT !.pc = HandlerAfterDrain(ops[i].kind)],
                                    chatLog)]
    /\ UNCHANGED <<impl, handlerVars, pipelines, workers, revisions, histVars, indexVars>>

\* Handler.unpause, called while the connection is destroyed: joinVoiceChannel
\* makes a new connection, start() registers the Ready listener
HUnpauseWithin(limit) ==
    /\ impl = "handler"
    /\ commands < limit
    /\ connection.status = "destroyed"
    /\ commands' = commands + 1
    /\ connection' = [status |-> "signalling", gen |-> connection.gen + 1]
    /\ UNCHANGED <<impl, transcriptionQueue, transcriptionWorking, chatLog, tokenCount,
                   this_activeVoiceStreams, hEpoch, loopVars, hist, enqueued, warnLog,
                   feedback, indexVars>>

HUnpause == HUnpauseWithin(MaxCommands)

\* VoiceConnectionStatus.Ready: startVoiceReceiver registers the listener
HVoiceReady ==
    /\ impl = "handler"
    /\ connection.status = "signalling"
    /\ connection' = [connection EXCEPT !.status = "ready"]
    /\ UNCHANGED <<impl, transcriptionQueue, transcriptionWorking, chatLog, tokenCount,
                   this_activeVoiceStreams, hEpoch, loopVars, histVars, indexVars>>

\* Handler.stop: the chat log after the thread was started (lines 386-390)
HandlerStopLog(log, summary) ==
    <<Msg(SYSTEM, INITIAL_PROMPT, 0), Msg(ASSISTANT, summary, 0),
      Msg(SYSTEM, REPLY_PROMPT, 0)>>

\* Handler.stop resumed after one of its awaits; ok: the awaited call succeeded
HStopStep(i, ok) ==
    /\ impl = "handler"
    /\ i \in DOMAIN ops
    /\ ops[i].kind = "stop"
    /\ ops[i].pc \in {"typing", "model", "posting", "thread", "notice"}
    /\ LET pc == ops[i].pc IN
       IF ~ok
       THEN /\ ops' = [ops EXCEPT ![i].pc = "failed", ![i].failedAt = pc]
            /\ UNCHANGED <<chatLog, this_activeVoiceStreams, hEpoch>>
       ELSE CASE pc = "typing" ->
                 \* PromptModel(this.chatLog)
                 /\ ops' = [ops EXCEPT ![i].pc = "model", ![i].sent = chatLog,
                                       ![i].busy = @ \cup Busy("model", HandlerDrained)]
                 /\ UNCHANGED <<chatLog, this_activeVoiceStreams, hEpoch>>
              [] pc = "model" ->
                 \* the summary parts and the transcript are sent
                 /\ ops' = [ops EXCEPT ![i].pc = "posting", ![i].summary = SummaryText]
                 /\ UNCHANGED <<chatLog, this_activeVoiceStreams, hEpoch>>
              [] pc = "posting" ->
                 \* activeVoiceStreams.clear(), summaryMessage.startThread
                 /\ ops' = [ops EXCEPT ![i].pc = "thread"]
                 /\ this_activeVoiceStreams' = {}
                 /\ UNCHANGED <<chatLog, hEpoch>>
              [] pc = "thread" ->
                 \* the chat log is replaced, thread.send
                 /\ ops' = [ops EXCEPT ![i].pc = "notice"]
                 /\ chatLog' = HandlerStopLog(chatLog, ops[i].summary)
                 /\ hEpoch' = [n |-> hEpoch.n + 1, tokens |-> tokenCount, len |-> 3]
                 /\ UNCHANGED this_activeVoiceStreams
              [] pc = "notice" ->
                 \* the collector is created, stop() returns
                 /\ ops' = [ops EXCEPT ![i].pc = "done", ![i].collector = "open",
                                       ![i].busy = @ \cup Busy("return", HandlerDrained)]
                 /\ UNCHANGED <<chatLog, this_activeVoiceStreams, hEpoch>>
    /\ UNCHANGED <<impl, connection, transcriptionQueue, transcriptionWorking,
                   tokenCount, pipelines, workers, revisions, histVars, indexVars>>

\* ------------------------------------------------- Handler revision window
Authors == Users \cup {"bot"}

\* a collector without a filter
AcceptsAnyone(author, sessionId) == TRUE

\* the collector's filter: !m.author.bot && m.author.id === sessionId
CollectorAccepts(author, sessionId) == author # "bot" /\ author = sessionId

\* one run of the "collect" handler: the message it handles, the chat log when
\* the message arrived, the log passed to the model, the await that rejected
Revision(i, author, log) ==
    [op |-> i, pc |-> "ack", author |-> author, before |-> log, sent |-> <<>>,
     failedAt |-> "none"]

\* a message arrives in the thread while the collector is open
HThreadMessage(i, author) ==
    /\ impl = "handler"
    /\ i \in DOMAIN ops
    /\ ops[i].collector = "open"
    /\ feedback < MaxFeedback
    /\ feedback' = feedback + 1
    /\ revisions' = IF CollectorAccepts(author, HandlerSessionId)
                    THEN Append(revisions, Revision(i, author, chatLog))
                    ELSE revisions
    /\ UNCHANGED <<impl, handlerVars, pipelines, workers, ops, hist, enqueued,
                   warnLog, commands, indexVars>>

\* the "collect" handler resumed after one of its awaits
HRevisionStep(r, ok) ==
    /\ impl = "handler"
    /\ r \in DOMAIN revisions
    /\ revisions[r].pc \in {"ack", "model", "reply"}
    /\ LET pc == revisions[r].pc IN
       IF ~ok
       THEN /\ revisions' = [revisions EXCEPT ![r].pc = "failed", ![r].failedAt = pc]
            /\ UNCHANGED chatLog
       ELSE CASE pc = "ack" ->
                 \* react and sendTyping done: push the feedback, PromptModel
                 /\ chatLog' = Append(chatLog, Msg(USER, FeedbackText, 0))
                 /\ revisions' = [revisions EXCEPT ![r].pc = "model",
                                     ![r].sent = Append(chatLog, Msg(USER, FeedbackText, 0))]
              [] pc = "model" ->
                 \* the reply parts are sent to the thread
                 /\ revisions' = [revisions EXCEPT ![r].pc = "reply"]
                 /\ UNCHANGED chatLog
              [] pc = "reply" ->
                 /\ chatLog' = Append(chatLog, Msg(ASSISTANT, SummaryText, 0))
                 /\ revisions' = [revisions EXCEPT ![r].pc = "done"]
    /\ UNCHANGED <<impl, connection, transcriptionQueue, transcriptionWorking,
                   tokenCount, this_activeVoiceStreams, hEpoch, pipelines, workers,
                   ops, histVars, indexVars>>

\* the collector's 30-minute timer: "end", the locked notice is sent
HCollectorEnd(i) ==
    /\ impl = "handler"
    /\ i \in DOMAIN ops
    /\ ops[i].collector = "open"
    /\ ops' = [ops EXCEPT ![i].collector = "ended"]
    /\ UNCHANGED <<impl, handlerVars, pipelines, workers, revisions, histVars, indexVars>>

\* ----------------------------------------------------------------- Init
\* After `new Handler(sessionData, client)` and start(); index.js just loaded.
Init ==
    /\ impl \in Implementations
    /\ connection = [status |-> "signalling", gen |-> 1]
    /\ transcriptionQueue = <<>>
    /\ transcriptionWorking = FALSE
    /\ chatLog = <<Msg(SYSTEM, INITIAL_PROMPT, 0)>>
    /\ tokenCount = 0
    /\ this_activeVoiceStreams = {}
    /\ hEpoch = [n |-> 1, tokens |-> 0, len |-> 1]
    /\ pipelines = {}
    /\ workers = {}
    /\ ops = <<>>
    /\ revisions = <<>>
    /\ hist = <<>>
    /\ enqueued = <<>>
    /\ warnLog = <<>>
    /\ commands = 0
    /\ feedback = 0
    /\ currentSessions = [o \in {"g1", "g2"} |-> 0]
    /\ sessions = <<>>
    /\ allSessionsMembers = [u \in Users |-> [nickname |-> "", sessionId |-> ""]]
    /\ activeVoiceStreams = {}
    /\ TranscriptionQueue = <<>>
    /\ TranscriptionWorking = FALSE
    /\ timers = {}

\* ================================================================ index.js
\* g1 and g2 run sessions, each in a voice channel of a guild of their own;
\* p1 plays in g1's game and sits in g1's voice channel.
Owners == {"g1", "g2"}
StartArgs == SUBSET {"p1"}
voiceChannel == [u \in Users |-> IF u = "g2" THEN "g2" ELSE "g1"]

\* member.displayName as the guild reports it
displayName == [u \in Users |-> IF u = "p1" THEN "Al" ELSE IF u = "g1" THEN "Gil" ELSE "Gus"]

NoMember == [nickname |-> "", sessionId |-> ""]
MemberIds(members) == {u \in Users : members[u] # NoMember}

\* the start case: the entries written to allSessionsMembers (lines 224-241)
StartMembers(members, owner, args) ==
    [u \in Users |->
        IF u = owner THEN [nickname |-> "GM", sessionId |-> owner]
        ELSE IF u \in args THEN [nickname |-> displayName[u], sessionId |-> owner]
        ELSE members[u]]

\* the start case: the object stored in currentSessions (lines 264-271)
NewSession(owner, players) ==
    [owner |-> owner, connection |-> [status |-> "signalling", gen |-> 1],
     tokenCount |-> 0, players |-> players,
     chatLog |-> <<Msg(SYSTEM, INITIAL_PROMPT, 0)>>,
     epoch |-> [n |-> 1, tokens |-> 0, len |-> 1]]

\* the owner's current session holds a connection that was not destroyed
LiveSession(owner) ==
    /\ currentSessions[owner] # 0
    /\ sessions[currentSessions[owner]].connection.status # "destroyed"

\* messageCreate, the start case; the author sits in a voice channel of a
\* guild where the bot holds no live connection.
IStart(owner, args) ==
    /\ impl = "index"
    /\ Len(sessions) < MaxSessions
    /\ ~LiveSession(owner)
    /\ allSessionsMembers' = StartMembers(allSessionsMembers, owner, args)
    /\ sessions' = Append(sessions, NewSession(owner, args))
    /\ currentSessions' = [currentSessions EXCEPT ![owner] = Len(sessions) + 1]
    /\ UNCHANGED <<impl, handlerVars, loopVars, histVars, activeVoiceStreams,
                   TranscriptionQueue, TranscriptionWorking, timers>>

\* VoiceConnectionStatus.Ready: startVoiceReceiver(connection)
IVoiceReady(sid) ==
    /\ impl = "index"
    /\ sid \in DOMAIN sessions
    /\ sessions[sid].connection.status = "signalling"
    /\ sessions' = [sessions EXCEPT ![sid].connection.status = "ready"]
    /\ UNCHANGED <<impl, handlerVars, loopVars, histVars, currentSessions,
                   allSessionsMembers, activeVoiceStreams, TranscriptionQueue,
                   TranscriptionWorking, timers>>

\* startVoiceReceiver: the "start" listener of the receiver of session sid
ISpeechStart(sid, u) ==
    /\ impl = "index"
    /\ sid \in DOMAIN sessions
    /\ sessions[sid].connection.status = "ready"
    /\ voiceChannel[u] = sessions[sid].owner
    /\ IF StartIgnored(activeVoiceStreams, MemberIds(allSessionsMembers), u)
       THEN UNCHANGED vars
       ELSE /\ NewCapture(u, allSessionsMembers[u].sessionId, sid,
                          sessions[sid].connection.gen)
            /\ activeVoiceStreams' = activeVoiceStreams \cup {u}
            /\ UNCHANGED <<impl, handlerVars, workers, ops, revisions, enqueued,
                           warnLog, commands, feedback, currentSessions, sessions,
                           allSessionsMembers, TranscriptionQueue,
                           TranscriptionWorking, timers>>

\* ------------------------------------------------- the queue of utils.js
\* DequeueTranscription without the test of the lock
DequeueUnguarded(working) == FALSE

\* DequeueTranscription, the early return of line 198
IndexDequeueReturns(working) == working

\* DequeueTranscription up to `await callback(job)`; shift() of an empty queue
\* gives undefined and line 202 returns
IndexDequeue(st) ==
    IF IndexDequeueReturns(st.working) THEN st
    ELSE IF Len(st.queue) = 0 THEN st
    ELSE TakeJob(st)

\* an onComplete that pushes the job and does not call the worker
IndexEnqueueOnly(st, job) == [st EXCEPT !.queue = Append(@, job)]

\* onComplete: EnqueueTranscription(job); DequeueTranscription(handleUserWavBuffer)
IndexEnqueue(st, job) == IndexDequeue([st EXCEPT !.queue = Append(@, job)])

\* a finally block that releases the lock and leaves the queue alone
IndexFinallyIdle(st, wk) == [st EXCEPT !.working = FALSE, !.workers = @ \ {wk}]

\* DequeueTranscription, its finally block
IndexFinally(st, wk) ==
    LET released == [st EXCEPT !.working = FALSE, !.workers = @ \ {wk}] IN
    IF Len(released.queue) > 0 THEN IndexDequeue(released) ELSE released

IndexCommit(st) ==
    /\ TranscriptionQueue' = st.queue
    /\ TranscriptionWorking' = st.working
    /\ workers' = st.workers
    /\ hist' = st.hist

\* the loop condition of lines 280 and 390 is false
IndexDrained == ~(TranscriptionWorking \/ Len(TranscriptionQueue) > 0)

\* createVoiceListeningStream: ffmpeg.on("end")
IStreamEnd(p) ==
    /\ impl = "index"
    /\ p \in pipelines
    /\ pipelines' = pipelines \ {p}
    /\ activeVoiceStreams' = activeVoiceStreams \ {p.userId}
    /\ IF p.chunks > 0
       THEN /\ IndexCommit(IndexEnqueue(
                  QState(TranscriptionQueue, TranscriptionWorking,
                         SetOutcome(hist, p.cap, "queued")),
                  Job(p.userId, p.sessionId, p.chunks, p.cap)))
            /\ enqueued' = Append(enqueued, p.cap)
       ELSE /\ hist' = SetOutcome(hist, p.cap, "lost")
            /\ UNCHANGED <<TranscriptionQueue, TranscriptionWorking, workers, enqueued>>
    /\ UNCHANGED <<impl, handlerVars, ops, revisions, warnLog, commands, feedback,
                   currentSessions, sessions, allSessionsMembers, timers>>

\* createVoiceListeningStream: errorHandler
IStreamError(p) ==
    /\ impl = "index"
    /\ p \in pipelines
    /\ pipelines' = pipelines \ {p}
    /\ activeVoiceStreams' = activeVoiceStreams \ {p.userId}
    /\ hist' = SetOutcome(hist, p.cap, "crashed")
    /\ UNCHANGED <<impl, handlerVars, workers, ops, revisions, enqueued, warnLog,
                   commands, feedback, currentSessions, sessions, allSessionsMembers,
                   TranscriptionQueue, TranscriptionWorking, timers>>

\* ------------------------------------------------------ the index.js worker
\* handleUserWavBuffer: the session object the line goes to, 0 when the
\* lookups of lines 168 and 171 give undefined (a TypeError, caught at 189)
IndexTarget(members, current, userId) ==
    IF members[userId] = NoMember THEN 0 ELSE current[members[userId].sessionId]

\* handleUserWavBuffer after `await fetch(...)` and `await res.json()`
ITranscribed(wk, answer) ==
    /\ impl = "index"
    /\ wk \in workers
    /\ wk.pc = "transcribe"
    /\ LET text == IF answer = WhisperError THEN <<>> ELSE CleanTranscription(answer)
           s == IndexTarget(allSessionsMembers, currentSessions, wk.job.userId)
           h1 == SetOutcome(hist, wk.job.cap, OutcomeOf(answer))
       IN  IF StrLen(text) > 0 /\ s # 0
           THEN LET content == IndexContent(allSessionsMembers[wk.job.userId].nickname,
                                            text)
                    tc == sessions[s].tokenCount + EstimateTokens(content)
                IN  /\ sessions' = [sessions EXCEPT
                           ![s].chatLog = Append(@, Msg(USER, content, wk.job.cap)),
                           ![s].tokenCount = tc]
                    /\ IF IndexWarns(tc)
                       THEN /\ workers' = (workers \ {wk}) \cup
                                  {[wk EXCEPT !.pc = "warn", !.sess = s,
                                              !.epoch = sessions[s].epoch.n]}
                            /\ hist' = h1
                            /\ UNCHANGED <<TranscriptionQueue, TranscriptionWorking>>
                       ELSE IndexCommit(IndexFinally(
                                QState(TranscriptionQueue, TranscriptionWorking, h1), wk))
           ELSE /\ IndexCommit(IndexFinally(
                      QState(TranscriptionQueue, TranscriptionWorking, h1), wk))
                /\ UNCHANGED sessions
    /\ UNCHANGED <<impl, handlerVars, pipelines, ops, revisions, enqueued, warnLog,
                   commands, feedback, currentSessions, allSessionsMembers,
                   activeVoiceStreams, timers>>

\* handleUserWavBuffer after `await ...?.send(warning)`, then the finally block
IWarned(wk, ok) ==
    /\ impl = "index"
    /\ wk \in workers
    /\ wk.pc = "warn"
    /\ warnLog' = IF ok THEN Append(warnLog, [sid |-> wk.sess, epoch |-> wk.epoch,
                                              cap |-> wk.job.cap])
                  ELSE warnLog
    /\ IndexCommit(IndexFinally(
           QState(TranscriptionQueue, TranscriptionWorking, hist), wk))
    /\ UNCHANGED <<impl, handlerVars, pipelines, ops, revisions, enqueued, commands,
                   feedback, currentSessions, sessions, allSessionsMembers,
                   activeVoiceStreams, timers>>

\* ------------------------------------------------------ index.js lifecycle
\* the loops of lines 373-377 and 421-425: the entries of the session go
DropMembers(members, owner) ==
    [u \in Users |-> IF members[u].sessionId = owner THEN NoMember ELSE members[u]]

\* a reset that keeps the summary only
IndexPauseLogBare(summary) == <<Msg(ASSISTANT, summary, 0)>>

\* the pause case: the chat log after the model answered (lines 411-419)
IndexPauseLog(summary) ==
    <<Msg(SYSTEM, INITIAL_PROMPT, 0), Msg(ASSISTANT, summary, 0)>>

\* the stop case: the two pushes of lines 320-327
IndexStopLog(log, summary) ==
    log \o <<Msg(ASSISTANT, summary, 0), Msg(SYSTEM, REPLY_PROMPT, 0)>>

\* messageCreate, the pause and stop cases up to their first suspension; without
\* a session of the author the handler returns.
ICommandWithin(kind, owner, limit) ==
    /\ impl = "index"
    /\ commands < limit
    /\ currentSessions[owner] # 0
    /\ commands' = commands + 1
    /\ LET sid == currentSessions[owner]
           conn == sessions[sid].connection
       IN  IF conn.status = "destroyed"
           THEN /\ ops' = Append(ops, Op(kind, owner, sid, "refused", conn.gen))
                /\ UNCHANGED sessions
           ELSE /\ sessions' = [sessions EXCEPT ![sid].connection.status = "destroyed"]
                /\ ops' = Append(ops, Op(kind, owner, sid,
                                         IF IndexDrained THEN "typing" ELSE "drain",
                                         conn.gen))
    /\ UNCHANGED <<impl, handlerVars, pipelines, workers, revisions, hist, enqueued,
                   warnLog, feedback, currentSessions, allSessionsMembers,
                   activeVoiceStreams, TranscriptionQueue, TranscriptionWorking, timers>>

ICommand(kind, owner) == ICommandWithin(kind, owner, MaxCommands)

IPause(owner) == ICommand("pause", owner)
IStop(owner) == ICommand("stop", owner)

\* the polling loops of lines 280-282 and 390-392 find the queue drained
IDrainPoll(i) ==
    /\ impl = "index"
    /\ i \in DOMAIN ops
    /\ ops[i].pc = "drain"
    /\ IndexDrained
    /\ ops' = [ops EXCEPT ![i].pc = "typing"]
    /\ UNCHANGED <<impl, handlerVars, pipelines, workers, revisions, histVars, indexVars>>

\* the pause case resumed after one of its awaits; ok: the awaited call succeeded
IPauseStep(i, ok) ==
    /\ impl = "index"
    /\ i \in DOMAIN ops
    /\ ops[i].kind = "pause"
    /\ ops[i].pc \in {"typing", "model", "reply"}
    /\ LET pc == ops[i].pc
           sid == ops[i].sid
       IN  IF ~ok
           THEN /\ ops' = [ops EXCEPT ![i].pc = "failed", ![i].failedAt = pc]
                /\ UNCHANGED <<sessions, allSessionsMembers>>
           ELSE CASE pc = "typing" ->
                     \* ollama.chat({messages: sessionToPause.chatLog})
                     /\ ops' = [ops EXCEPT ![i].pc = "model",
                                           ![i].sent = sessions[sid].chatLog,
                                           ![i].busy = @ \cup Busy("model", IndexDrained)]
                     /\ UNCHANGED <<sessions, allSessionsMembers>>
                  [] pc = "model" ->
                     \* the chat log is reset, the members go, message.reply
                     /\ ops' = [ops EXCEPT ![i].pc = "reply", ![i].summary = SummaryText]
                     /\ sessions' = [sessions EXCEPT
                            ![sid].chatLog = IndexPauseLog(SummaryText),
                            ![sid].epoch = [n |-> @.n + 1,
                                            tokens |-> sessions[sid].tokenCount,
                                            len |-> 2]]
                     /\ allSessionsMembers' = DropMembers(allSessionsMembers, ops[i].owner)
                  [] pc = "reply" ->
                     /\ ops' = [ops EXCEPT ![i].pc = "done",
                                           ![i].busy = @ \cup Busy("return", IndexDrained)]
                     /\ UNCHANGED <<sessions, allSessionsMembers>>
    /\ UNCHANGED <<impl, handlerVars, pipelines, workers, revisions, histVars,
                   currentSessions, activeVoiceStreams, TranscriptionQueue,
                   TranscriptionWorking, timers>>

\* the stop case resumed after one of its awaits; ok: the awaited call succeeded
IStopStep(i, ok) ==
    /\ impl = "index"
    /\ i \in DOMAIN ops
    /\ ops[i].kind = "stop"
    /\ ops[i].pc \in {"typing", "model", "posting", "thread", "notice"}
    /\ LET pc == ops[i].pc
           sid == ops[i].sid
       IN  IF ~ok
           THEN /\ ops' = [ops EXCEPT ![i].pc = "failed", ![i].failedAt = pc]
                /\ UNCHANGED <<sessions, timers>>
           ELSE CASE pc = "typing" ->
                     \* ollama.chat({messages: session.chatLog})
                     /\ ops' = [ops EXCEPT ![i].pc = "model",
                                           ![i].sent = sessions[sid].chatLog,
                                           ![i].busy = @ \cup Busy("model", IndexDrained)]
                     /\ UNCHANGED <<sessions, timers>>
                  [] pc = "model" ->
                     \* channel.send(markdownSummary)
                     /\ ops' = [ops EXCEPT ![i].pc = "posting", ![i].summary = SummaryText]
                     /\ UNCHANGED <<sessions, timers>>
                  [] pc = "posting" ->
                     \* summaryMessage.startThread
                     /\ ops' = [ops EXCEPT ![i].pc = "thread"]
                     /\ UNCHANGED <<sessions, timers>>
                  [] pc = "thread" ->
                     \* the summary and the reply prompt are pushed, thread.send
                     /\ ops' = [ops EXCEPT ![i].pc = "notice"]
                     /\ sessions' = [sessions EXCEPT
                            ![sid].chatLog = IndexStopLog(@, ops[i].summary)]
                     /\ UNCHANGED timers
                  [] pc = "notice" ->
                     \* the collector is created, the cleanup timer is set
                     /\ ops' = [ops EXCEPT ![i].pc = "done", ![i].collector = "open",
                                           ![i].busy = @ \cup Busy("return", IndexDrained)]
                     /\ timers' = timers \cup {i}
                     /\ UNCHANGED sessions
    /\ UNCHANGED <<impl, handlerVars, pipelines, workers, revisions, histVars,
                   currentSessions, allSessionsMembers, activeVoiceStreams,
                   TranscriptionQueue, TranscriptionWorking>>

\* the cleanup timer of the stop numbered i fires (lines 371-382)
ICleanup(i) ==
    /\ impl = "index"
    /\ i \in timers
    /\ timers' = timers \ {i}
    /\ allSessionsMembers' = DropMembers(allSessionsMembers, ops[i].owner)
    /\ currentSessions' = [currentSessions EXCEPT ![ops[i].owner] = 0]
    /\ UNCHANGED <<impl, handlerVars, loopVars, histVars, sessions, activeVoiceStreams,
                   TranscriptionQueue, TranscriptionWorking>>

\* the unpause case: the entries written back for the players and the owner
UnpauseMembers(members, owner, players) ==
    [u \in Users |->
        IF u = owner THEN [nickname |-> "GM", sessionId |-> owner]
        ELSE IF u \in players THEN [nickname |-> displayName[u], sessionId |-> owner]
        ELSE members[u]]

\* messageCreate, the unpause case; the author sits in a voice channel and the
\* session's connection was destroyed, so joinVoiceChannel makes a new one.
IUnpauseWithin(owner, limit) ==
    /\ impl = "index"
    /\ commands < limit
    /\ currentSessions[owner] # 0
    /\ sessions[currentSessions[owner]].connection.status = "destroyed"
    /\ commands' = commands + 1
    /\ LET sid == currentSessions[owner]
           players == sessions[sid].players
       IN  /\ allSessionsMembers' = UnpauseMembers(allSessionsMembers, owner, players)
           /\ activeVoiceStreams' = activeVoiceStreams \ (players \cup {owner})
           /\ sessions' = [sessions EXCEPT ![sid].connection =
                              [status |-> "signalling", gen |-> @.gen + 1]]
    /\ UNCHANGED <<impl, handlerVars, loopVars, hist, enqueued, warnLog, feedback,
                   currentSessions, TranscriptionQueue, TranscriptionWorking, timers>>

\* an unpause case that starts the session's chat log and token count afresh
IUnpauseFresh(owner) ==
    /\ impl = "index"
    /\ commands < MaxCommands
    /\ currentSessions[owner] # 0
    /\ sessions[currentSessions[owner]].connection.status = "destroyed"
    /\ commands' = commands + 1
    /\ LET sid == currentSessions[owner]
           players == sessions[sid].players
       IN  /\ allSessionsMembers' = UnpauseMembers(allSessionsMembers, owner, players)
           /\ activeVoiceStreams' = activeVoiceStreams \ (players \cup {owner})
           /\ sessions' = [sessions EXCEPT
                  ![sid].connection = [status |-> "signalling", gen |-> @.gen + 1],
                  ![sid].chatLog = <<Msg(SYSTEM, INITIAL_PROMPT, 0)>>,
                  ![sid].tokenCount = 0]
    /\ UNCHANGED <<impl, handlerVars, loopVars, hist, enqueued, warnLog, feedback,
                   currentSessions, TranscriptionQueue, TranscriptionWorking, timers>>

IUnpause(owner) == IUnpauseWithin(owner, MaxCommands)

\* ------------------------------------------------- index.js revision window
\* a message arrives in the thread while the collector is open
IThreadMessage(i, author) ==
    /\ impl = "index"
    /\ i \in DOMAIN ops
    /\ ops[i].collector = "open"
    /\ feedback < MaxFeedback
    /\ feedback' = feedback + 1
    /\ revisions' = IF CollectorAccepts(author, ops[i].owner)
                    THEN Append(revisions, Revision(i, author,
                                                    sessions[ops[i].sid].chatLog))
                    ELSE revisions
    /\ UNCHANGED <<impl, handlerVars, pipelines, workers, ops, hist, enqueued,
                   warnLog, commands, indexVars>>

\* the "collect" handler of lines 338-362 resumed after one of its awaits
IRevisionStep(r, ok) ==
    /\ impl = "index"
    /\ r \in DOMAIN revisions
    /\ revisions[r].pc \in {"ack", "model", "reply"}
    /\ LET pc == revisions[r].pc
           sid == ops[revisions[r].op].sid
       IN  IF ~ok
           THEN /\ revisions' = [revisions EXCEPT ![r].pc = "failed", ![r].failedAt = pc]
                /\ UNCHANGED sessions
           ELSE CASE pc = "ack" ->
                     \* react and sendTyping done: push the feedback, ollama.chat
                     /\ sessions' = [sessions EXCEPT ![sid].chatLog =
                                        Append(@, Msg(USER, FeedbackText, 0))]
                     /\ revisions' = [revisions EXCEPT ![r].pc = "model",
                            ![r].sent = Append(sessions[sid].chatLog,
                                               Msg(USER, FeedbackText, 0))]
                  [] pc = "model" ->
                     \* push the revised summary, thread.send
                     /\ sessions' = [sessions EXCEPT ![sid].chatLog =
                                        Append(@, Msg(ASSISTANT, SummaryText, 0))]
                     /\ revisions' = [revisions EXCEPT ![r].pc = "reply"]
                  [] pc = "reply" ->
                     /\ revisions' = [revisions EXCEPT ![r].pc = "done"]
                     /\ UNCHANGED sessions
    /\ UNCHANGED <<impl, handlerVars, pipelines, workers, ops, histVars,
                   currentSessions, allSessionsMembers, activeVoiceStreams,
                   TranscriptionQueue, TranscriptionWorking, timers>>

\* the collector's 30-minute timer: "end", the locked notice is sent
ICollectorEnd(i) ==
    /\ impl = "index"
    /\ i \in DOMAIN ops
    /\ ops[i].collector = "open"
    /\ ops' = [ops EXCEPT ![i].collector = "ended"]
    /\ UNCHANGED <<impl, handlerVars, pipelines, workers, revisions, histVars, indexVars>>

\* ================================================== capture and transcription
\* The sessions capture speech and transcribe it; no pause, stop or unpause.
CaptureNext ==
    \/ HVoiceReady
    \/ \E u \in Users : HSpeechStart(u)
    \/ \E p \in pipelines : StreamData(p)
    \/ \E p \in pipelines : HStreamEnd(p)
    \/ \E p \in pipelines : HStreamError(p)
    \/ \E wk \in workers, answer \in WhisperAnswers : HTranscribed(wk, answer)
    \/ \E wk \in workers, ok \in BOOLEAN : HWarned(wk, ok)
    \/ \E o \in Owners, args \in StartArgs : IStart(o, args)
    \/ \E sid \in DOMAIN sessions : IVoiceReady(sid)
    \/ \E sid \in DOMAIN sessions, u \in Users : ISpeechStart(sid, u)
    \/ \E p \in pipelines : IStreamEnd(p)
    \/ \E p \in pipelines : IStreamError(p)
    \/ \E wk \in workers, answer \in WhisperAnswers : ITranscribed(wk, answer)
    \/ \E wk \in workers, ok \in BOOLEAN : IWarned(wk, ok)

SpecCapture == Init /\ [][CaptureNext]_vars

\* The transcription service answers or fails in the end, and so does the
\* channel when the warning is sent: a suspended worker is resumed.
WorkerResumes ==
    \/ \E wk \in workers, answer \in WhisperAnswers : HTranscribed(wk, answer)
    \/ \E wk \in workers, ok \in BOOLEAN : HWarned(wk, ok)
    \/ \E wk \in workers, answer \in WhisperAnswers : ITranscribed(wk, answer)
    \/ \E wk \in workers, ok \in BOOLEAN : IWarned(wk, ok)

SpecCaptureFair == SpecCapture /\ WF_vars(WorkerResumes)

\* ============================================================ the queue alone
\* g1 and p1 speak, every capture holds audio and ends; the service answers
\* with a short text or fails, so no warning is sent.
ShortAnswers == {WhisperError, <<"hi", SPACE, BLANK_AUDIO>>}

QueueNext ==
    \/ HVoiceReady
    \/ \E u \in {"g1", "p1"} : HSpeechStart(u)
    \/ \E p \in pipelines : (p.chunks = 0 /\ StreamData(p))
    \/ \E p \in pipelines : (p.chunks > 0 /\ HStreamEnd(p))
    \/ \E wk \in workers, answer \in ShortAnswers : HTranscribed(wk, answer)
    \/ (sessions = <<>> /\ IStart("g1", {"p1"}))
    \/ \E sid \in DOMAIN sessions : IVoiceReady(sid)
    \/ \E sid \in DOMAIN sessions, u \in {"g1", "p1"} : ISpeechStart(sid, u)
    \/ \E p \in pipelines : (p.chunks > 0 /\ IStreamEnd(p))
    \/ \E wk \in workers, answer \in ShortAnswers : ITranscribed(wk, answer)

QueueResumes ==
    \/ \E wk \in workers, answer \in ShortAnswers : HTranscribed(wk, answer)
    \/ \E wk \in workers, answer \in ShortAnswers : ITranscribed(wk, answer)

SpecQueueFair == Init /\ [][QueueNext]_vars /\ WF_vars(QueueResumes)

\* ======================================================= one session's life
\* One session per wiring (g1's), captured, paused, stopped and unpaused; a
\* command is typed only when the command before it has finished or failed.
LifecycleNext ==
    \/ HVoiceReady
    \/ \E u \in Users : HSpeechStart(u)
    \/ \E p \in pipelines : StreamData(p)
    \/ \E p \in pipelines : HStreamEnd(p)
    \/ \E p \in pipelines : HStreamError(p)
    \/ \E wk \in workers, answer \in WhisperAnswers : HTranscribed(wk, answer)
    \/ \E wk \in workers, ok \in BOOLEAN : HWarned(wk, ok)
    \/ (NoOpInProgress /\ HPause)
    \/ (NoOpInProgress /\ HStop)
    \/ (NoOpInProgress /\ HUnpause)
    \/ \E i \in DOMAIN ops : HDrainPoll(i)
    \/ \E i \in DOMAIN ops, ok \in BOOLEAN : HStopStep(i, ok)
    \/ \E args \in StartArgs : (sessions = <<>> /\ IStart("g1", args))
    \/ \E sid \in DOMAIN sessions : IVoiceReady(sid)
    \/ \E sid \in DOMAIN sessions, u \in Users : ISpeechStart(sid, u)
    \/ \E p \in pipelines : IStreamEnd(p)
    \/ \E p \in pipelines : IStreamError(p)
    \/ \E wk \in workers, answer \in WhisperAnswers : ITranscribed(wk, answer)
    \/ \E wk \in workers, ok \in BOOLEAN : IWarned(wk, ok)
    \/ (NoOpInProgress /\ IPause("g1"))
    \/ (NoOpInProgress /\ IStop("g1"))
    \/ (NoOpInProgress /\ IUnpause("g1"))
    \/ \E i \in DOMAIN ops : IDrainPoll(i)
    \/ \E i \in DOMAIN ops, ok \in BOOLEAN : IPauseStep(i, ok)
    \/ \E i \in DOMAIN ops, ok \in BOOLEAN : IStopStep(i, ok)

SpecLifecycle == Init /\ [][LifecycleNext]_vars

\* ===================================================== one speaker, in turns
\* g1's session with g1 as its only speaker: an utterance begins when the one
\* before it has been transcribed, and a command is typed when nothing is
\* open, queued or awaited.
Settled == NoOpInProgress /\ pipelines = {} /\ workers = {}

TurnsNext ==
    \/ HVoiceReady
    \/ (Settled /\ HSpeechStart("g1"))
    \/ \E p \in pipelines : StreamData(p)
    \/ \E p \in pipelines : HStreamEnd(p)
    \/ \E wk \in workers, answer \in WhisperAnswers : HTranscribed(wk, answer)
    \/ \E wk \in workers, ok \in BOOLEAN : HWarned(wk, ok)
    \/ (Settled /\ HPause)
    \/ (Settled /\ HStop)
    \/ (Settled /\ HUnpause)
    \/ \E i \in DOMAIN ops, ok \in BOOLEAN : HStopStep(i, ok)
    \/ (sessions = <<>> /\ IStart("g1", {}))
    \/ \E sid \in DOMAIN sessions : IVoiceReady(sid)
    \/ \E sid \in DOMAIN sessions : (Settled /\ ISpeechStart(sid, "g1"))
    \/ \E p \in pipelines : IStreamEnd(p)
    \/ \E wk \in workers, answer \in WhisperAnswers : ITranscribed(wk, answer)
    \/ \E wk \in workers, ok \in BOOLEAN : IWarned(wk, ok)
    \/ (Settled /\ IPause("g1"))
    \/ (Settled /\ IStop("g1"))
    \/ (Settled /\ IUnpause("g1"))
    \/ \E i \in DOMAIN ops, ok \in BOOLEAN : IPauseStep(i, ok)
    \/ \E i \in DOMAIN ops, ok \in BOOLEAN : IStopStep(i, ok)

SpecTurns == Init /\ [][TurnsNext]_vars

\* ========================================================= drain and transit
\* g1 speaks and types pause or stop at any moment; the transcription service
\* answers in the end, and the typing, model and send calls succeed.
DrainNext ==
    \/ HVoiceReady
    \/ HSpeechStart("g1")
    \/ \E p \in pipelines : (p.chunks = 0 /\ StreamData(p))
    \/ \E p \in pipelines : (p.chunks > 0 /\ HStreamEnd(p))
    \/ \E wk \in workers, answer \in ShortAnswers : HTranscribed(wk, answer)
    \/ (NoOpInProgress /\ HPause)
    \/ (NoOpInProgress /\ HStop)
    \/ \E i \in DOMAIN ops : HDrainPoll(i)
    \/ \E i \in DOMAIN ops : HStopStep(i, TRUE)
    \/ (sessions = <<>> /\ IStart("g1", {}))
    \/ \E sid \in DOMAIN sessions : IVoiceReady(sid)
    \/ \E sid \in DOMAIN sessions : ISpeechStart(sid, "g1")
    \/ \E p \in pipelines : (p.chunks > 0 /\ IStreamEnd(p))
    \/ \E wk \in workers, answer \in ShortAnswers : ITranscribed(wk, answer)
    \/ (NoOpInProgress /\ IPause("g1"))
    \/ (NoOpInProgress /\ IStop("g1"))
    \/ \E i \in DOMAIN ops : IDrainPoll(i)
    \/ \E i \in DOMAIN ops : IPauseStep(i, TRUE)
    \/ \E i \in DOMAIN ops : IStopStep(i, TRUE)

\* the timer of the drain loop fires; an awaited call of pause or stop resolves
DrainPolls == \E i \in DOMAIN ops : HDrainPoll(i) \/ IDrainPoll(i)

CallResolves ==
    \E i \in DOMAIN ops : HStopStep(i, TRUE) \/ IPauseStep(i, TRUE) \/ IStopStep(i, TRUE)

SpecDrainFair ==
    /\ Init /\ [][DrainNext]_vars
    /\ WF_vars(QueueResumes) /\ WF_vars(DrainPolls) /\ WF_vars(CallResolves)

\* ======================================================== commands at any time
\* g1 speaks and types pause, stop and unpause whenever the handler accepts a
\* message, also while an earlier command is suspended at one of its awaits.
OverlapNext ==
    \/ HVoiceReady
    \/ HSpeechStart("g1")
    \/ \E p \in pipelines : (p.chunks = 0 /\ StreamData(p))
    \/ \E p \in pipelines : (p.chunks > 0 /\ HStreamEnd(p))
    \/ \E wk \in workers, answer \in ShortAnswers : HTranscribed(wk, answer)
    \/ HCommandWithin("pause", MaxOverlap)
    \/ HCommandWithin("stop", MaxOverlap)
    \/ HUnpauseWithin(MaxOverlap)
    \/ \E i \in DOMAIN ops : HDrainPoll(i)
    \/ \E i \in DOMAIN ops : HStopStep(i, TRUE)
    \/ (sessions = <<>> /\ IStart("g1", {}))
    \/ \E sid \in DOMAIN sessions : IVoiceReady(sid)
    \/ \E sid \in DOMAIN sessions : ISpeechStart(sid, "g1")
    \/ \E p \in pipelines : (p.chunks > 0 /\ IStreamEnd(p))
    \/ \E wk \in workers, answer \in ShortAnswers : ITranscribed(wk, answer)
    \/ ICommandWithin("pause", "g1", MaxOverlap)
    \/ ICommandWithin("stop", "g1", MaxOverlap)
    \/ IUnpauseWithin("g1", MaxOverlap)
    \/ \E i \in DOMAIN ops : IDrainPoll(i)
    \/ \E i \in DOMAIN ops : IPauseStep(i, TRUE)
    \/ \E i \in DOMAIN ops : IStopStep(i, TRUE)

SpecOverlap == Init /\ [][OverlapNext]_vars

\* ======================================================== the whole process
\* g1 and g2 each run a session in a guild of their own and speak in it; an
\* owner who has stopped may start again, and the cleanup timer of a stop fires
\* at any later moment.  One command is handled at a time and every awaited
\* call succeeds.
ProcessNext ==
    \/ HVoiceReady
    \/ HSpeechStart("g1")
    \/ \E p \in pipelines : (p.chunks = 0 /\ StreamData(p))
    \/ \E p \in pipelines : (p.chunks > 0 /\ HStreamEnd(p))
    \/ \E wk \in workers, answer \in ShortAnswers : HTranscribed(wk, answer)
    \/ (NoOpInProgress /\ HPause)
    \/ (NoOpInProgress /\ HStop)
    \/ \E i \in DOMAIN ops : HDrainPoll(i)
    \/ \E i \in DOMAIN ops : HStopStep(i, TRUE)
    \/ \E o \in Owners : (NoOpInProgress /\ IStart(o, {}))
    \/ \E sid \in DOMAIN sessions : IVoiceReady(sid)
    \/ \E sid \in DOMAIN sessions, u \in Owners : ISpeechStart(sid, u)
    \/ \E p \in pipelines : (p.chunks > 0 /\ IStreamEnd(p))
    \/ \E wk \in workers, answer \in ShortAnswers : ITranscribed(wk, answer)
    \/ \E o \in Owners : (NoOpInProgress /\ IPause(o))
    \/ \E o \in Owners : (NoOpInProgress /\ IStop(o))
    \/ \E i \in DOMAIN ops : IDrainPoll(i)
    \/ \E i \in DOMAIN ops : IPauseStep(i, TRUE)
    \/ \E i \in DOMAIN ops : IStopStep(i, TRUE)
    \/ \E i \in timers : ICleanup(i)

SpecProcess == Init /\ [][ProcessNext]_vars

\* ======================================================= the revision window
\* g1's session is stopped without a word captured; the thread collects
\* feedback until its timer ends it, and the cleanup timer fires.
ReviewNext ==
    \/ HStop
    \/ \E i \in DOMAIN ops, ok \in BOOLEAN : HStopStep(i, ok)
    \/ \E i \in DOMAIN ops, a \in Authors : HThreadMessage(i, a)
    \/ \E r \in DOMAIN revisions, ok \in BOOLEAN : HRevisionStep(r, ok)
    \/ \E i \in DOMAIN ops : HCollectorEnd(i)
    \/ \E args \in StartArgs : (sessions = <<>> /\ IStart("g1", args))
    \/ IStop("g1")
    \/ \E i \in DOMAIN ops, ok \in BOOLEAN : IStopStep(i, ok)
    \/ \E i \in timers : ICleanup(i)
    \/ \E i \in DOMAIN ops, a \in Authors : IThreadMessage(i, a)
    \/ \E r \in DOMAIN revisions, ok \in BOOLEAN : IRevisionStep(r, ok)
    \/ \E i \in DOMAIN ops : ICollectorEnd(i)

SpecReview == Init /\ [][ReviewNext]_vars

\* ======================================================= transcript attachment
\* BuildTranscript as stop() applies it, for every chat log of up to MaxLogLen
\* messages of the three roles.
TranscriptMessages ==
    {Msg(SYSTEM, INITIAL_PROMPT, 0), Msg(ASSISTANT, SummaryText, 0),
     Msg(USER, HandlerContent("GM", <<"hi">>), 0),
     Msg(USER, FeedbackText, 0)}

TranscriptLogs == UNION {[1..n -> TranscriptMessages] : n \in 0..MaxLogLen}

TranscriptInit ==
    /\ impl = "handler"
    /\ connection = [status |-> "ready", gen |-> 1]
    /\ transcriptionQueue = <<>>
    /\ transcriptionWorking = FALSE
    /\ chatLog \in TranscriptLogs
    /\ tokenCount = 0
    /\ this_activeVoiceStreams = {}
    /\ hEpoch = [n |-> 1, tokens |-> 0, len |-> Len(chatLog)]
    /\ pipelines = {}
    /\ workers = {}
    /\ ops = <<>>
    /\ revisions = <<>>
    /\ hist = <<>>
    /\ enqueued = <<>>
    /\ warnLog = <<>>
    /\ commands = 0
    /\ feedback = 0
    /\ currentSessions = [o \in {"g1", "g2"} |-> 0]
    /\ sessions = <<>>
    /\ allSessionsMembers = [u \in Users |-> [nickname |-> "", sessionId |-> ""]]
    /\ activeVoiceStreams = {}
    /\ TranscriptionQueue = <<>>
    /\ TranscriptionWorking = FALSE
    /\ timers = {}

TranscriptNext ==
    \/ HStop
    \/ \E i \in DOMAIN ops, ok \in BOOLEAN : HStopStep(i, ok)

SpecTranscript == TranscriptInit /\ [][TranscriptNext]_vars

\* ==================================================================== claims
\* The chat logs of the sessions that exist.
AllLogs ==
    IF impl = "handler" THEN {chatLog}
    ELSE {sessions[s].chatLog : s \in DOMAIN sessions}

\* The transcript lines of a log: the positions that carry a capture.
Lines(log) == {i \in DOMAIN log : log[i].cap # 0}

EnqueuedBefore(c, d) ==
    \E i, j \in DOMAIN enqueued : i < j /\ enqueued[i] = c /\ enqueued[j] = d

\* C1: the transcript lines of a chat log stand in the order in which their
\* jobs were enqueued, whatever the latencies and outcomes of the transcription
\* calls were.
C1_EnqueueOrder ==
    \A log \in AllLogs : \A i, j \in Lines(log) :
        i < j => EnqueuedBefore(log[i].cap, log[j].cap)

\* Two lines of two speakers stand in one chat log.
C1_Witness ==
    \E log \in AllLogs : \E i, j \in Lines(log) :
        /\ i < j
        /\ hist[log[i].cap].userId # hist[log[j].cap].userId

\* C2: at most one activation of the worker holds a job at any time, so a
\* second job is never taken from the queue before the first job's
\* transcription call has completed.
C2_OneInFlight ==
    /\ Cardinality(workers) <= 1
    /\ workers # {} =>
          IF impl = "handler" THEN transcriptionWorking ELSE TranscriptionWorking

\* A job waits in the queue while another job's transcription call is in flight.
C2_Witness ==
    /\ \E wk \in workers : wk.pc = "transcribe"
    /\ Len(IF impl = "handler" THEN transcriptionQueue ELSE TranscriptionQueue) > 0

\* An operation has called the language model: the log it sent is recorded.
ModelCalled(op) == op.sent # <<>>

\* C3: pause() and stop() call the language model and return only while the
\* transcription queue is empty and the worker idle.
C3_DrainInvariant == \A i \in DOMAIN ops : ops[i].busy = {}

\* C4: the chat log that pause()/stop() passes to the language model holds the
\* line of every utterance captured on the connection it tore down whose
\* transcription gave text; no such line comes later or is lost.
C4_NothingLost ==
    \A i \in DOMAIN ops : ModelCalled(ops[i]) =>
        \A c \in DOMAIN hist :
            ( /\ hist[c].sid = ops[i].sid
              /\ hist[c].gen = ops[i].gen
              /\ hist[c].outcome = "text" )
            => \E k \in Lines(ops[i].sent) : ops[i].sent[k].cap = c

Markers == IF impl = "handler" THEN this_activeVoiceStreams ELSE activeVoiceStreams

Participants ==
    IF impl = "handler" THEN DOMAIN activePlayers ELSE MemberIds(allSessionsMembers)

\* C5: a speaker has at most one live capture stream, marked in
\* activeVoiceStreams; a speech start of a speaker who has one, or of somebody
\* who is no participant, creates no stream and no job.
C5_OneStreamPerSpeaker ==
    /\ \A p, q \in pipelines : p.userId = q.userId => p = q
    /\ \A p \in pipelines : p.userId \in Markers
    /\ \A c \in DOMAIN hist : hist[c].userId \in Participants

\* A speaker is being captured again after an earlier capture of theirs ended.
C5_Witness ==
    \E p \in pipelines : \E c \in DOMAIN hist :
        c < p.cap /\ hist[c].userId = p.userId

\* the wrapped content `<name>text</name>` of speaker name
Wrapped(content, name) ==
    /\ Len(content) >= 6
    /\ content[1] = "<" /\ content[2] = name /\ content[3] = ">"
    /\ content[Len(content) - 2] = "</"
    /\ content[Len(content) - 1] = name
    /\ content[Len(content)] = ">"

\* the chat log of the session object numbered sid
LogOf(sid) == IF impl = "handler" THEN chatLog ELSE sessions[sid].chatLog

SessionIds == IF impl = "handler" THEN {1} ELSE DOMAIN sessions

\* C6: a transcribed utterance is one user message <speakerName>text</speakerName>
\* in the chat log of the session that captured it, and in no other chat log.
C6_LineShape ==
    \A sid \in SessionIds : \A i \in Lines(LogOf(sid)) :
        LET m == LogOf(sid)[i] IN
        /\ m.role = USER
        /\ Wrapped(m.content, m.content[2])
        /\ hist[m.cap].sid = sid
        /\ \A j \in Lines(LogOf(sid)) : LogOf(sid)[j].cap = m.cap => j = i

TokenCountOf(sid) == IF impl = "handler" THEN tokenCount ELSE sessions[sid].tokenCount

QueueNow == IF impl = "handler" THEN transcriptionQueue ELSE TranscriptionQueue

\* the worker finishes a job whose transcription failed or came back empty
FailedJobDone(wk) ==
    /\ wk \in workers
    /\ wk \notin workers'
    /\ hist'[wk.job.cap].outcome \in {"error", "empty"}

\* C7: when the transcription of a job fails or is empty after cleaning, no
\* chat log and no token count changes, the job is in the queue no more, and no
\* job is ever handed to the transcription service twice.
C7_FailureDropsJob ==
    /\ [](\A c \in DOMAIN hist : hist[c].calls <= 1)
    /\ [][\A wk \in workers : FailedJobDone(wk) =>
            /\ chatLog' = chatLog /\ tokenCount' = tokenCount
            /\ sessions' = sessions
            /\ \A k \in DOMAIN QueueNow' : QueueNow'[k].cap # wk.job.cap]_vars

\* One job failed, another came back empty, and both are gone.
C7_Witness ==
    /\ \E c \in DOMAIN hist : hist[c].outcome = "error"
    /\ \E c \in DOMAIN hist : hist[c].outcome = "empty"
    /\ workers = {} /\ QueueNow = <<>>

EpochOf(sid) == IF impl = "handler" THEN hEpoch ELSE sessions[sid].epoch

RECURSIVE SumTokens(_, _)
SumTokens(log, from) ==
    IF from > Len(log) THEN 0
    ELSE EstimateTokens(log[from].content) + SumTokens(log, from + 1)

\* C8: within an epoch the token count is its value at the epoch start plus
\* ceil(L/4) for every message of length L appended to the chat log since.
C8_TokenAccounting ==
    \A sid \in SessionIds :
        TokenCountOf(sid) =
            EpochOf(sid).tokens + SumTokens(LogOf(sid), EpochOf(sid).len + 1)

\* C9: when pause() has completed and nothing was appended since, the token
\* count is the estimate of the interim summary.
C9_PauseResetsCount ==
    \A i \in DOMAIN ops :
        ( /\ ops[i].kind = "pause"
          /\ ops[i].pc = "done"
          /\ LogOf(ops[i].sid) = IndexPauseLog(ops[i].summary) )
        => TokenCountOf(ops[i].sid) = EstimateTokens(ops[i].summary)

\* C10: in one epoch of one session the 75% warning is sent once.
C10_WarnOnce ==
    \A i, j \in DOMAIN warnLog :
        (warnLog[i].sid = warnLog[j].sid /\ warnLog[i].epoch = warnLog[j].epoch)
        => i = j

\* the worker appends a transcript line to the log of session sid
LineAppended(sid) ==
    /\ Len(LogOf(sid)') = Len(LogOf(sid)) + 1
    /\ LogOf(sid)'[Len(LogOf(sid)')].cap # 0

\* C11: an append that brings the token count above 85% of the maximum is
\* detected and reported: the worker goes on to send a message to the channel.
C11_OverLimitReported ==
    [][\A sid \in SessionIds :
          (LineAppended(sid) /\ TokenCountOf(sid)' > WarnHigh)
          => \E wk \in workers' :
                 /\ wk.pc = "warn"
                 /\ wk.job.cap = LogOf(sid)'[Len(LogOf(sid)')].cap]_vars

ConnectionOf(sid) == IF impl = "handler" THEN connection ELSE sessions[sid].connection

\* the session of the operation has not been unpaused since the operation
StillDown(op) ==
    ConnectionOf(op.sid) = [status |-> "destroyed", gen |-> op.gen]

\* C12: a pause() of an active session whose calls all succeed ends with the
\* connection destroyed and the chat log equal to the system prompt followed
\* by the assistant's interim summary.
C12_PauseResetsLog ==
    \A i \in DOMAIN ops :
        (ops[i].kind = "pause" /\ ops[i].pc \in {"done", "threw"} /\ StillDown(ops[i]))
        => LogOf(ops[i].sid) = <<Msg(SYSTEM, INITIAL_PROMPT, 0),
                                   Msg(ASSISTANT, SummaryText, 0)>>

\* the stop numbered i has started the thread and updated the chat log
StopPosted(op) == op.kind = "stop" /\ op.pc \in {"notice", "done"}

\* C13: after stop() has posted the final summary the chat log is the log that
\* was passed to the model, followed by the assistant's summary and the
\* system-role reply prompt.
C13_StopAppends ==
    \A i \in DOMAIN ops :
        (StopPosted(ops[i]) /\ StillDown(ops[i]) /\ revisions = <<>>)
        => LogOf(ops[i].sid) =
               ops[i].sent \o <<Msg(ASSISTANT, ops[i].summary, 0),
                                 Msg(SYSTEM, REPLY_PROMPT, 0)>>

\* the model calls of session sid that were made and have not completed
ModelCallsInFlight(sid) ==
    {<<"op", i>> : i \in {j \in DOMAIN ops : ops[j].sid = sid /\ ops[j].pc = "model"}}
    \cup {<<"revision", r>> : r \in {q \in DOMAIN revisions :
                                        /\ ops[revisions[q].op].sid = sid
                                        /\ revisions[q].pc = "model"}}

\* C14: the revision loop is sequential: a session has at most one model call
\* in flight, and the model call of a later owner message is not made while an
\* earlier owner message of the window is still being handled.
C14_SequentialRevisions ==
    /\ \A sid \in SessionIds : Cardinality(ModelCallsInFlight(sid)) <= 1
    /\ \A r, q \in DOMAIN revisions :
           (r < q /\ revisions[r].op = revisions[q].op /\ revisions[q].pc = "model")
           => revisions[r].pc \notin {"ack", "model"}

\* the feedback messages in a chat log: user-role messages that are no
\* transcript lines
FeedbackIn(log) == {k \in DOMAIN log : log[k].role = USER /\ log[k].cap = 0}

\* the runs of the "collect" listener of session sid
RevisionsOf(sid) == {r \in DOMAIN revisions : ops[revisions[r].op].sid = sid}

\* C15: in the revision window only messages of the session owner are
\* accepted: every run of the collect listener (and so every model call and
\* every user message pushed after stop) handles a message whose author is the
\* owner and not the bot, and a log holds no more feedback messages than such
\* runs exist; messages of other authors start no run.
C15_OwnerOnly ==
    /\ [](/\ \A r \in DOMAIN revisions :
              /\ revisions[r].author # "bot"
              /\ revisions[r].author = ops[revisions[r].op].owner
          /\ \A sid \in SessionIds :
              Cardinality(FeedbackIn(LogOf(sid))) <= Cardinality(RevisionsOf(sid)))
    /\ [][(feedback' # feedback /\ Len(revisions') = Len(revisions))
          => UNCHANGED <<handlerVars, loopVars, indexVars>>]_vars

\* The thread received two messages; one was ignored, the other was the
\* owner's and has been answered by the model.
C15_Witness ==
    /\ feedback = 2
    /\ Len(revisions) = 1
    /\ revisions[1].pc = "done"

\* C16: Closed is terminal: once the revision window of a stop has expired and
\* the locked notice was sent, the chat log of the session does not change, no
\* model call is started and no revision reply is sent, also for owner
\* messages whose handling was in progress at expiry.
C16_ClosedIsTerminal ==
    [][\A i \in DOMAIN ops :
          ops[i].collector = "ended"
          => /\ LogOf(ops[i].sid)' = LogOf(ops[i].sid)
             /\ \A r \in DOMAIN revisions :
                    (revisions[r].op = i /\ revisions'[r].pc \in {"model", "reply"})
                    => revisions'[r].pc = revisions[r].pc]_vars

\* the awaits of pause and stop that wait for an outbound side effect: the
\* typing indicator, the posts of the summary, the start of the thread, the
\* message to the thread, the reply to the command
SideEffects == {"typing", "posting", "thread", "notice", "reply"}

\* the last two messages of a log are a summary and the reply prompt
EndsInReview(log) ==
    /\ Len(log) >= 3
    /\ log[Len(log) - 1] = Msg(ASSISTANT, SummaryText, 0)
    /\ log[Len(log)] = Msg(SYSTEM, REPLY_PROMPT, 0)

\* C17: when an outbound side effect of pause() or stop() fails, the transition
\* completes all the same: after such a pause the chat log is the system prompt
\* and the summary and no stream is marked, after such a stop the chat log ends
\* with the summary and the reply prompt.
C17_AdvancesOnSendFailure ==
    \A i \in DOMAIN ops :
        (ops[i].failedAt \in SideEffects /\ StillDown(ops[i]))
        => IF ops[i].kind = "pause"
           THEN /\ LogOf(ops[i].sid) = IndexPauseLog(SummaryText)
                /\ Markers = {}
           ELSE EndsInReview(LogOf(ops[i].sid))

\* C18: a failing model call does not corrupt the chat log: when the model call
\* of a stop or of a revision has failed, the chat log is the log from before
\* the operation began (nothing else wrote to the log in between).
C18_FailedCallKeepsLog ==
    /\ \A i \in DOMAIN ops :
           (ops[i].failedAt = "model" /\ StillDown(ops[i]))
           => LogOf(ops[i].sid) = ops[i].sent
    /\ \A r \in DOMAIN revisions :
           (revisions[r].failedAt = "model" /\ Len(revisions) = 1)
           => LogOf(ops[revisions[r].op].sid) = revisions[r].before

\* the user-role messages of a log, by position
UserPositions(log) == {k \in DOMAIN log : log[k].role = USER}

\* the position of the j-th user-role message of a log
NthUser(log, j) ==
    CHOOSE k \in UserPositions(log) :
        Cardinality({m \in UserPositions(log) : m < k}) = j - 1

\* where the j-th user-role content starts in the transcript: after the
\* contents before it and one separator for each of them
RECURSIVE TranscriptOffset(_, _)
TranscriptOffset(log, j) ==
    IF j = 1 THEN 0
    ELSE TranscriptOffset(log, j - 1) + Len(log[NthUser(log, j - 1)].content) + 1

\* content occurs in text
Occurs(content, text) ==
    \E from \in 1..Len(text) :
        /\ from + Len(content) - 1 <= Len(text)
        /\ SubSeq(text, from, from + Len(content) - 1) = content

\* text is the contents of the user-role messages of log, in the order of the
\* log, with a blank line between two of them and nothing else
IsTranscriptOf(text, log) ==
    LET n == Cardinality(UserPositions(log)) IN
    IF n = 0 THEN text = <<>>
    ELSE /\ Len(text) = TranscriptOffset(log, n) + Len(log[NthUser(log, n)].content)
         /\ \A j \in 1..n :
                LET from == TranscriptOffset(log, j)
                    content == log[NthUser(log, j)].content
                IN  /\ SubSeq(text, from + 1, from + Len(content)) = content
                    /\ j < n => text[from + Len(content) + 1] = "\n\n"
         /\ \A k \in DOMAIN log :
                log[k].role # USER => ~Occurs(log[k].content, text)

\* stop() has built its attachment and has not yet replaced the chat log
AttachmentBuilt(op) ==
    op.kind = "stop" /\ op.pc \in {"typing", "model", "posting", "thread"}

\* C19: the transcript attachment built from a chat log is the contents of its
\* user-role messages, in the order of the log, joined by a blank line; no
\* content of a system or assistant message is in it, and a log without
\* user-role messages gives the empty transcript.
C19_TranscriptOfUserLines ==
    \A i \in DOMAIN ops :
        AttachmentBuilt(ops[i]) => IsTranscriptOf(ops[i].transcript, chatLog)

\* An attachment was built from a log with two user lines around a message of
\* another role; one was built from a log without user lines.
C19_Witness ==
    \E i \in DOMAIN ops :
        /\ AttachmentBuilt(ops[i])
        /\ Len(chatLog) = 3
        /\ chatLog[1].role = USER /\ chatLog[2].role # USER /\ chatLog[3].role = USER
        /\ chatLog[1] # chatLog[3]
        /\ Len(ops[i].transcript) > 0

\* the errorHandler of the capture numbered c runs in this step
StreamCrashes(c) ==
    /\ c \in DOMAIN hist
    /\ hist[c].outcome # "crashed"
    /\ hist'[c].outcome = "crashed"

\* C20: an error of one speaker's stream removes that speaker's stream and
\* marker and nothing else: the streams of the other speakers with the audio
\* they have accumulated, the transcription queue and its worker, the chat
\* logs, the token counts and the sessions' connections stay as they are.
C20_ErrorIsLocal ==
    [][\A p \in pipelines :
          StreamCrashes(p.cap)
          => /\ pipelines' = pipelines \ {p}
             /\ Markers' = Markers \ {p.userId}
             /\ UNCHANGED <<connection, transcriptionQueue, transcriptionWorking,
                            chatLog, tokenCount, workers, ops, currentSessions,
                            sessions, allSessionsMembers, TranscriptionQueue,
                            TranscriptionWorking>>]_vars

\* A stream failed while an older stream of another speaker, which holds
\* audio, was open; that stream is still open.
C20_Witness ==
    \E c \in DOMAIN hist : \E p \in pipelines :
        /\ hist[c].outcome = "crashed"
        /\ p.cap < c
        /\ p.chunks > 0
        /\ p.userId # hist[c].userId

\* the capture streams of session sid that are open
StreamsOf(sid) == {p \in pipelines : hist[p.cap].sid = sid}

\* the speakers of session sid who are marked in activeVoiceStreams
MarkedIn(sid) ==
    IF impl = "handler" THEN this_activeVoiceStreams
    ELSE {u \in activeVoiceStreams : voiceChannel[u] = sessions[sid].owner}

\* pause() or stop() has returned and the session was not resumed since
PausedOrStopped(op) == op.pc = "done" /\ StillDown(op)

\* C21: while a session is Paused or Stopped it has no ActiveStream: no capture
\* stream of the session is open and none of its speakers is marked.
C21_NoStreamsWhenDown ==
    \A i \in DOMAIN ops :
        PausedOrStopped(ops[i])
        => StreamsOf(ops[i].sid) = {} /\ MarkedIn(ops[i].sid) = {}

\* unpause of session sid happens in this step: a new connection replaces the
\* destroyed one
Unpaused(sid) == ConnectionOf(sid)'.gen = ConnectionOf(sid).gen + 1

\* the pause of session sid has returned and nothing was done to it since
PauseDone(sid) ==
    \E i \in DOMAIN ops :
        /\ ops[i].sid = sid /\ ops[i].kind = "pause"
        /\ PausedOrStopped(ops[i])

\* C22: unpause changes the connection and the listening only: the chat log
\* and the token count are after it what they were before it, the queue, the
\* worker and the open streams are untouched, and after a pause that has
\* returned the chat log is still the system prompt and the interim summary.
C22_UnpauseKeepsLog ==
    [][\A sid \in SessionIds :
          Unpaused(sid)
          => /\ LogOf(sid)' = LogOf(sid)
             /\ TokenCountOf(sid)' = TokenCountOf(sid)
             /\ PauseDone(sid) => LogOf(sid)' = IndexPauseLog(SummaryText)
             /\ UNCHANGED <<pipelines, workers, ops, transcriptionQueue,
                            transcriptionWorking, TranscriptionQueue,
                            TranscriptionWorking>>]_vars

\* A session that had transcribed speech was paused and unpaused: its log is
\* the pause log, its token count is that of before the pause.
C22_Witness ==
    \E sid \in SessionIds :
        /\ ConnectionOf(sid).gen = 2
        /\ \E i \in DOMAIN ops : ops[i].kind = "pause" /\ ops[i].pc = "done"
        /\ LogOf(sid) = IndexPauseLog(SummaryText)
        /\ TokenCountOf(sid) > 0

SystemMessages(log) == {k \in DOMAIN log : log[k].role = SYSTEM}

\* stop() has put its reply prompt into the chat log of session sid
ReviewBegun(sid) ==
    \E i \in DOMAIN ops :
        /\ ops[i].sid = sid
        /\ StopPosted(ops[i]) \/ (ops[i].kind = "stop" /\ ops[i].failedAt = "notice")

\* C23: the first message of a session's chat log is the system persona
\* prompt in every state; from construction and from the pause reset on, until
\* stop() adds its reply prompt, the log holds exactly one system message.
C23_SystemPromptFirst ==
    \A sid \in SessionIds :
        /\ Len(LogOf(sid)) >= 1
        /\ LogOf(sid)[1] = Msg(SYSTEM, INITIAL_PROMPT, 0)
        /\ ~ReviewBegun(sid) => Cardinality(SystemMessages(LogOf(sid))) = 1

\* After a pause reset a line was transcribed into the new epoch.
C23_Witness ==
    \E sid \in SessionIds :
        /\ EpochOf(sid).n = 2
        /\ ~ReviewBegun(sid)
        /\ Len(LogOf(sid)) = 3
        /\ LogOf(sid)[2].role = ASSISTANT
        /\ LogOf(sid)[3].cap # 0

\* the capture stream p ends in this step (the "end" handler of its ffmpeg
\* stage runs)
StreamEnds(p) ==
    /\ p \in pipelines
    /\ \A q \in pipelines' : q.cap # p.cap
    /\ hist'[p.cap].outcome # "crashed"

TimesEnqueued(c) == Cardinality({k \in DOMAIN enqueued : enqueued[k] = c})

\* C24: when a capture ends, the speaker's marker is released whether audio
\* was accumulated or not; one job is enqueued for it when the buffer is not
\* empty, none when it is empty; no capture is enqueued twice.
C24_OneJobPerCapture ==
    /\ [](\A c \in DOMAIN hist : TimesEnqueued(c) <= 1)
    /\ [][\A p \in pipelines :
            StreamEnds(p)
            => /\ p.userId \notin Markers'
               /\ pipelines' = pipelines \ {p}
               /\ IF p.chunks > 0
                  THEN enqueued' = Append(enqueued, p.cap)
                  ELSE /\ enqueued' = enqueued
                       /\ QueueNow' = QueueNow /\ workers' = workers]_vars

\* One capture ended with an empty buffer, another with audio; both speakers
\* are released and one job exists.
C24_Witness ==
    /\ \E c \in DOMAIN hist : hist[c].outcome = "lost"
    /\ Len(enqueued) = 1
    /\ pipelines = {} /\ Markers = {}

Working == IF impl = "handler" THEN transcriptionWorking ELSE TranscriptionWorking

\* the activation wk of the worker ends in this step: its job is done, failed
\* or thrown out
JobEnds(wk) ==
    /\ wk \in workers
    /\ \A w \in workers' : w.job.cap # wk.job.cap

\* the job of wk did not make it: the transcription failed or was empty, or
\* the handling threw
JobFailed(wk) ==
    \/ hist'[wk.job.cap].outcome \in {"error", "empty"}
    \/ \A log \in AllLogs' : \A k \in DOMAIN log : log[k].cap # wk.job.cap
    \/ wk.pc = "warn" /\ warnLog' = warnLog

\* C25: the queue goes on after a failed job: when a job ends in failure the
\* next job of the queue is taken in the same handler, and when none is
\* queued the lock is released; the lock is never held without a job in
\* flight.
C25_QueueContinues ==
    /\ [](Working => workers # {})
    /\ [][\A wk \in workers :
            (JobEnds(wk) /\ JobFailed(wk))
            => IF QueueNow # <<>>
               THEN /\ QueueNow' = Tail(QueueNow)
                    /\ \E w \in workers' : w.job = Head(QueueNow) /\ w.pc = "transcribe"
                    /\ Working'
               ELSE /\ workers' = {} /\ ~Working' /\ QueueNow' = <<>>]_vars

\* The first job failed at the transcription service; the job enqueued behind
\* it was taken all the same and its text is in a chat log.
C25_Witness ==
    \E c, d \in DOMAIN hist :
        /\ EnqueuedBefore(c, d)
        /\ hist[c].outcome = "error"
        /\ hist[d].outcome = "text"
        /\ \E log \in AllLogs : \E k \in DOMAIN log : log[k].cap = d

Consumed(c) == c \in DOMAIN hist /\ hist[c].outcome \in {"text", "empty", "error"}

\* C26: when the transcription calls return or fail in the end, every job that
\* is enqueued is taken by the worker and consumed, whenever it was enqueued.
C26_EveryJobConsumed ==
    \A c \in 1..MaxCaptures : (TimesEnqueued(c) = 1) ~> Consumed(c)

\* Two jobs were enqueued and both were consumed, one of them with a text; the
\* worker is idle again.
C26_Witness ==
    /\ Len(enqueued) = 2
    /\ \A c \in DOMAIN hist : Consumed(c)
    /\ \E c \in DOMAIN hist : hist[c].outcome = "text"
    /\ workers = {} /\ QueueNow = <<>> /\ ~Working

\* pause() or stop() number i was called on a live connection
Accepted(i) == i \in DOMAIN ops /\ ops[i].pc # "refused"

\* pause() or stop() number i has returned normally
Returned(i) == i \in DOMAIN ops /\ ops[i].pc = "done"

\* operation i gets past its drain wait in this step
PassesDrain(i) ==
    /\ i \in DOMAIN ops'
    /\ ops'[i].pc \notin {"drain", "refused"}
    /\ i \in DOMAIN ops => ops[i].pc = "drain"

\* C27: there is no drain timeout.  When the transcription calls and the model
\* call return, a pause() or stop() called on a live session reaches its end
\* (Paused, Reviewing); and no pause() or stop() gets past its drain wait
\* while a job is queued or a transcription call is pending.
C27_DrainThenTransit ==
    /\ \A i \in 1..MaxCommands : Accepted(i) ~> Returned(i)
    /\ [][\A i \in 1..MaxCommands :
            PassesDrain(i) => (workers = {} /\ QueueNow = <<>> /\ ~Working)]_vars

\* stop() number i was called on a session that a pause() had left Paused
CalledWhenPaused(i) ==
    \E j \in DOMAIN ops :
        /\ j < i /\ ops[j].sid = ops[i].sid
        /\ ops[j].kind = "pause" /\ ops[j].pc = "done" /\ ops[j].gen = ops[i].gen

\* no audio was captured for the session of operation i on its connection
NoNewAudio(i) ==
    \A c \in DOMAIN hist : ~(hist[c].sid = ops[i].sid /\ hist[c].gen = ops[i].gen)

\* C28: stop() is accepted from Active and from Paused and calls the model on
\* the chat log as it stands: a stop() on a Paused session is not refused, and
\* when nothing was captured since the pause it sends the system prompt and
\* the interim summary.
C28_StopFromPaused ==
    \A i \in DOMAIN ops :
        (ops[i].kind = "stop" /\ CalledWhenPaused(i))
        => /\ ops[i].pc # "refused"
           /\ (ModelCalled(ops[i]) /\ NoNewAudio(i))
                 => ops[i].sent = IndexPauseLog(SummaryText)

\* C29: between two handlers an idle worker means an empty queue: the lock is
\* never free while a job waits.
C29_IdleMeansEmpty == ~Working => QueueNow = <<>>

\* A job was consumed while another waited; the worker went on with the
\* waiting job and the queue is empty.
C29_Witness ==
    /\ Working /\ QueueNow = <<>>
    /\ \E c \in DOMAIN hist : \E wk \in workers :
           Consumed(c) /\ EnqueuedBefore(c, wk.job.cap)

\* only pause and unpause were called so far
OnlyPauses == \A i \in DOMAIN ops : ops[i].kind = "pause"

\* the capture of pipeline p was created on the connection its session has now
OnLiveConnection(p) == hist[p.cap].gen = ConnectionOf(hist[p.cap].sid).gen

\* C30: across pause() and unpause() a speaker has at most one live capture
\* pipeline, and a capture made on the new connection keeps its marker: a
\* pipeline of the old connection that ends late does not remove it.
C30_OnePipelineAcrossPause ==
    OnlyPauses
    => /\ \A p, q \in pipelines : p.userId = q.userId => p.cap = q.cap
       /\ \A p \in pipelines : OnLiveConnection(p) => p.userId \in Markers

\* the operation waits for the drain or for the model
Waiting(op) == op.kind \in {"pause", "stop"} /\ op.pc \in {"drain", "typing", "model"}

\* C31: pause() and stop() of one session do not overlap: while one of them
\* still waits for the drain or for the model, no later pause() or stop() of the
\* session has called the model.
C31_NoOverlap ==
    \A i, j \in DOMAIN ops :
        (i < j /\ ops[i].sid = ops[j].sid /\ Waiting(ops[i]))
        => ~ModelCalled(ops[j])

\* the captures of session sid whose job is queued or being transcribed
PendingJobs(sid) ==
    {c \in DOMAIN hist :
        /\ hist[c].sid = sid
        /\ \/ \E k \in DOMAIN QueueNow : QueueNow[k].cap = c
           \/ \E wk \in workers : wk.job.cap = c}

\* the drain loop of pause()/stop() ends at its next poll
DrainPasses == IF impl = "handler" THEN HandlerDrained ELSE IndexDrained

\* C32: the drain wait of a session's pause or stop depends on that session's
\* jobs only: once none of its jobs is queued or being transcribed the wait ends
\* at the next poll, whatever other sessions have enqueued.
C32_DrainOwnJobsOnly ==
    \A i \in DOMAIN ops :
        (ops[i].pc = "drain" /\ PendingJobs(ops[i].sid) = {}) => DrainPasses

\* no stop was issued for session sid
NeverStopped(sid) == \A i \in DOMAIN ops : ops[i].sid = sid => ops[i].kind # "stop"

\* no pause or stop was issued for session sid
Untouched(sid) == \A i \in DOMAIN ops : ops[i].sid # sid

\* session sid is the last one its owner started
Newest(sid) ==
    \A t \in DOMAIN sessions : sessions[t].owner = sessions[sid].owner => t <= sid

\* C33: the session an owner started last stays in currentSessions while it is
\* Active or Paused, and its owner stays in allSessionsMembers while it is
\* Active: the cleanup timer of an earlier stop of that owner removes neither.
C33_CleanupSparesNewer ==
    \A sid \in DOMAIN sessions :
        LET owner == sessions[sid].owner IN
        /\ (Newest(sid) /\ NeverStopped(sid)) => currentSessions[owner] = sid
        /\ (Newest(sid) /\ Untouched(sid))
              => allSessionsMembers[owner].sessionId = owner
====
